---- MODULE Spec2Model ----
(***************************************************************************)
(* Document approval workflow: the Record Store (storage.ts), the Workflow *)
(* Engine (workflow.ts) and the approve / reject HTTP handlers that drive  *)
(* them (the Express application).                                         *)
(*                                                                         *)
(* Conventions of the model                                                *)
(*  - text is a sequence of one-character strings, so that trim() is       *)
(*    computed and not assumed;                                            *)
(*  - an optional value (T | undefined, T | null) is a sequence of length  *)
(*    0 (absent) or 1 (present);                                           *)
(*  - a timestamp is the millisecond reading of the clock; the ISO-8601    *)
(*    string the code stores denotes that reading to the millisecond and   *)
(*    is compared by the code through new Date(..).getTime();              *)
(*  - the data file is the sequence of records it holds: readData /        *)
(*    writeData parse and print the whole array on every call.             *)
(***************************************************************************)
EXTENDS Integers, Sequences, FiniteSets, TLC

VARIABLES
    file,       \* content of data/submissions.json: the array of records
    clock,      \* the wall clock, in milliseconds (Date.now())
    mailbox,    \* email-action tokens handed to the mailer for the manager
    last,       \* the call or request handled last, and what it answered
    applied,    \* history: per id, the status of its last successful transition
    tokenBlacklist, \* the login tokens invalidated by a logout
    damaged     \* "no", or how the data file stopped being a readable array

vars == <<file, clock, mailbox, last, applied, tokenBlacklist, damaged>>

----------------------------------------------------------------------------
(* Bounds of the model                                                     *)

StartTime  == 9      \* clock reading when the process starts
MaxClock   == 10     \* the clock stops ticking here
MaxRecords == 2      \* createSubmission is not called on a larger store

----------------------------------------------------------------------------
(* types/index.ts                                                          *)

Pending  == "pending"
Approved == "approved"
Rejected == "rejected"

SubmissionStatus == {Pending, Approved, Rejected}

----------------------------------------------------------------------------
(* Text helpers: String.prototype.trim and Number.prototype.toString       *)

Space == " "

RECURSIVE TrimStart(_)
TrimStart(s) ==
    IF s # <<>> /\ Head(s) = Space THEN TrimStart(Tail(s)) ELSE s

RECURSIVE TrimEnd(_)
TrimEnd(s) ==
    IF s # <<>> /\ s[Len(s)] = Space
        THEN TrimEnd(SubSeq(s, 1, Len(s) - 1))
        ELSE s

Trim(s) == TrimEnd(TrimStart(s))

Digit(d) == <<"0", "1", "2", "3", "4", "5", "6", "7", "8", "9">>[d + 1]

RECURSIVE ToDecimal(_)
ToDecimal(n) ==
    IF n < 10 THEN <<Digit(n)>> ELSE Append(ToDecimal(n \div 10), Digit(n % 10))

----------------------------------------------------------------------------
(* storage.ts: the data file                                               *)
(* The file holds what JSON.stringify prints for the array: one object per *)
(* record, in which a key whose value is undefined is left out.  An object *)
(* is a function from the keys it has to their values; JSON.parse gives    *)
(* back a record in which a key the object lacks is absent.                *)

\* variant: an optional field that was not given is written as null
Present_null(key, value) == IF value = <<>> THEN key :> "null" ELSE key :> value[1]

Present(key, value) == IF value = <<>> THEN <<>> ELSE key :> value[1]

stringify(submission) ==
    [id        |-> submission.id,
     title     |-> submission.title,
     content   |-> submission.content,
     status    |-> submission.status,
     createdAt |-> submission.createdAt,
     updatedAt |-> submission.updatedAt]
    @@ Present("imageReference", submission.imageReference)
    @@ Present("embeddedImages", submission.embeddedImages)
    @@ Present("writerEmail", submission.writerEmail)

Optional(object, key) ==
    IF key \in DOMAIN object THEN <<object[key]>> ELSE <<>>

parse(object) ==
    [id             |-> object.id,
     title          |-> object.title,
     content        |-> object.content,
     imageReference |-> Optional(object, "imageReference"),
     embeddedImages |-> Optional(object, "embeddedImages"),
     writerEmail    |-> Optional(object, "writerEmail"),
     status         |-> object.status,
     createdAt      |-> object.createdAt,
     updatedAt      |-> object.updatedAt]

writeData(data) == [i \in DOMAIN data |-> stringify(data[i])]

readData(content) == [i \in DOMAIN content |-> parse(content[i])]

\* the constructor: the file is created, holding [], only when there is none
\* variant: what can still be read of a damaged file is returned
readFile_salvaged(content, state) == readData(content)

\* readData with its catch: readFileSync throws on an unreadable file and
\* JSON.parse on an unparseable one, both are caught; content that parses
\* to something else than an array is dropped
readFile(content, state) ==
    IF state = "unreadable" THEN <<>>
    ELSE IF state = "unparseable" THEN <<>>
    ELSE IF state = "not an array" THEN <<>>
    ELSE readData(content)

\* variant: the error of the write is logged and the call goes on
writeFailure_swallowed(r, before) == [r EXCEPT !.data = before]

\* writeData throws when writeFileSync fails, and neither the Storage
\* methods nor the workflow engine catch: the call ends with that error
writeFailure(r, before) ==
    [outcome |-> "Failed to save submission to file", data |-> before,
     ret |-> <<>>]

ensureDataFile(exists, content) ==
    IF ~exists THEN writeData(<<>>) ELSE content

----------------------------------------------------------------------------
(* storage.ts: every operation reads the whole array and writes it back    *)

findIndex(data, id) ==
    IF \E i \in DOMAIN data : data[i].id = id
        THEN CHOOSE i \in DOMAIN data :
                 /\ data[i].id = id
                 /\ \A j \in 1..(i - 1) : data[j].id # id
        ELSE 0

saveSubmission(data, submission) == Append(data, submission)

\* variant: the record is written without its creation timestamp being kept
Storage_updateSubmission_restamp(data, submission) ==
    LET index == findIndex(data, submission.id)
    IN  IF index = 0
            THEN [ok |-> FALSE, data |-> data]
            ELSE [ok |-> TRUE,
                  data |-> [data EXCEPT
                               ![index] = [submission EXCEPT
                                              !.createdAt = submission.updatedAt]]]

\* variant: a record whose id is not found is added (an upsert)
Storage_updateSubmission_upsert(data, submission) ==
    LET index == findIndex(data, submission.id)
    IN  IF index = 0
            THEN [ok |-> TRUE, data |-> Append(data, submission)]
            ELSE [ok |-> TRUE, data |-> [data EXCEPT ![index] = submission]]

\* variant: the record is written to the first slot whatever the index found
Storage_updateSubmission_firstSlot(data, submission) ==
    LET index == findIndex(data, submission.id)
    IN  IF index = 0
            THEN [ok |-> FALSE, data |-> data]
            ELSE [ok |-> TRUE, data |-> [data EXCEPT ![1] = submission]]

Storage_updateSubmission(data, submission) ==
    LET index == findIndex(data, submission.id)
    IN  IF index = 0
            THEN [ok |-> FALSE, data |-> data]
            ELSE [ok |-> TRUE, data |-> [data EXCEPT ![index] = submission]]

Storage_getSubmission(data, id) ==
    LET index == findIndex(data, id)
    IN  IF index = 0 THEN <<>> ELSE <<data[index]>>

RECURSIVE FilterOut(_, _)
FilterOut(data, id) ==
    IF data = <<>> THEN <<>>
    ELSE IF Head(data).id = id THEN FilterOut(Tail(data), id)
    ELSE <<Head(data)>> \o FilterOut(Tail(data), id)

Storage_deleteSubmission(data, id) ==
    LET filtered == FilterOut(data, id)
    IN  IF Len(filtered) < Len(data)
            THEN [deleted |-> TRUE, data |-> filtered]
            ELSE [deleted |-> FALSE, data |-> data]

\* variant: the records are counted after the file was emptied
clearAll_countAfter(data) == [count |-> Len(<<>>), data |-> <<>>]

clearAll(data) == [count |-> Len(data), data |-> <<>>]

\* variant: the operands of the subtraction are exchanged
byCreatedAtAscending(a, b) == a.createdAt - b.createdAt

\* the comparator of both sorts: a goes before b when the value is negative
byCreatedAtDescending(a, b) == b.createdAt - a.createdAt

\* Array.prototype.sort is stable: an element is placed behind every element
\* the comparator does not order after it
RECURSIVE Insert(_, _)
Insert(sorted, x) ==
    IF sorted = <<>> THEN <<x>>
    ELSE IF byCreatedAtDescending(Head(sorted), x) <= 0
        THEN <<Head(sorted)>> \o Insert(Tail(sorted), x)
        ELSE <<x>> \o sorted

RECURSIVE sort(_)
sort(array) ==
    IF array = <<>> THEN <<>>
    ELSE Insert(sort(SubSeq(array, 1, Len(array) - 1)), array[Len(array)])

filter(array, status) == SelectSeq(array, LAMBDA s : s.status = status)

Storage_getAllSubmissions(data) == sort(data)

\* variant: the filtered array is returned in file order
Storage_getSubmissionsByStatus_unsorted(data, status) == filter(data, status)

Storage_getSubmissionsByStatus(data, status) == sort(filter(data, status))

\* variant: one of the status literals is misspelt
Storage_getSubmissionCounts_misspelt(data) ==
    [pending  |-> Len(filter(data, "pending")),
     approved |-> Len(filter(data, "approved")),
     rejected |-> Len(filter(data, "reject")),
     total    |-> Len(data)]

Storage_getSubmissionCounts(data) ==
    [pending  |-> Len(filter(data, "pending")),
     approved |-> Len(filter(data, "approved")),
     rejected |-> Len(filter(data, "rejected")),
     total    |-> Len(data)]

----------------------------------------------------------------------------
(* workflow.ts                                                             *)
(* An operation yields the outcome ("ok" or the error thrown), the array   *)
(* the file holds afterwards and the record returned, if any.              *)

\* variant: updatedAt taken from the earlier clock reading, createdAt from
\* the later one
createSubmission_earlyUpdatedAt(data, title, content, imageReference, embeddedImages, writerEmail, t1, t2) ==
    IF Trim(title) = <<>>
        THEN [outcome |-> "Title is required", data |-> data, ret |-> <<>>]
    ELSE IF Trim(content) = <<>>
        THEN [outcome |-> "Content is required", data |-> data, ret |-> <<>>]
    ELSE LET submission ==
                 [id             |-> ToDecimal(t1),
                  title          |-> Trim(title),
                  content        |-> Trim(content),
                  imageReference |-> imageReference,
                  embeddedImages |-> embeddedImages,
                  writerEmail    |-> writerEmail,
                  status         |-> Pending,
                  createdAt      |-> t2,
                  updatedAt      |-> t1]
         IN  [outcome |-> "ok",
              data    |-> saveSubmission(data, submission),
              ret     |-> <<submission>>]

\* t1 is the reading Date.now() gives for the id, t2 the later reading
\* new Date() gives for createdAt and updatedAt
\* variant: only the empty string is refused, not a blank one
createSubmission_emptyOnly(data, title, content, imageReference, embeddedImages, writerEmail, t1, t2) ==
    IF title = <<>>
        THEN [outcome |-> "Title is required", data |-> data, ret |-> <<>>]
    ELSE IF content = <<>>
        THEN [outcome |-> "Content is required", data |-> data, ret |-> <<>>]
    ELSE LET submission ==
                 [id             |-> ToDecimal(t1),
                  title          |-> Trim(title),
                  content        |-> Trim(content),
                  imageReference |-> imageReference,
                  embeddedImages |-> embeddedImages,
                  writerEmail    |-> writerEmail,
                  status         |-> Pending,
                  createdAt      |-> t2,
                  updatedAt      |-> t2]
         IN  [outcome |-> "ok",
              data    |-> saveSubmission(data, submission),
              ret     |-> <<submission>>]

\* variant: title and content are stored as they were given
createSubmission_untrimmed(data, title, content, imageReference, embeddedImages, writerEmail, t1, t2) ==
    IF Trim(title) = <<>>
        THEN [outcome |-> "Title is required", data |-> data, ret |-> <<>>]
    ELSE IF Trim(content) = <<>>
        THEN [outcome |-> "Content is required", data |-> data, ret |-> <<>>]
    ELSE LET submission ==
                 [id             |-> ToDecimal(t1),
                  title          |-> title,
                  content        |-> content,
                  imageReference |-> imageReference,
                  embeddedImages |-> embeddedImages,
                  writerEmail    |-> writerEmail,
                  status         |-> Pending,
                  createdAt      |-> t2,
                  updatedAt      |-> t2]
         IN  [outcome |-> "ok",
              data    |-> saveSubmission(data, submission),
              ret     |-> <<submission>>]

createSubmission(data, title, content, imageReference, embeddedImages, writerEmail, t1, t2) ==
    IF Trim(title) = <<>>
        THEN [outcome |-> "Title is required", data |-> data, ret |-> <<>>]
    ELSE IF Trim(content) = <<>>
        THEN [outcome |-> "Content is required", data |-> data, ret |-> <<>>]
    ELSE LET submission ==
                 [id             |-> ToDecimal(t1),
                  title          |-> Trim(title),
                  content        |-> Trim(content),
                  imageReference |-> imageReference,
                  embeddedImages |-> embeddedImages,
                  writerEmail    |-> writerEmail,
                  status         |-> Pending,
                  createdAt      |-> t2,
                  updatedAt      |-> t2]
         IN  [outcome |-> "ok",
              data    |-> saveSubmission(data, submission),
              ret     |-> <<submission>>]

\* variant: a decision, once taken, cannot be changed
validateStatusTransition_final(currentStatus, newStatus) ==
    currentStatus = newStatus \/ currentStatus = Pending

\* TRUE when the check returns normally; the code has no branch that throws
validateStatusTransition(currentStatus, newStatus) ==
    IF currentStatus = newStatus THEN TRUE ELSE TRUE

\* variant: a transition of an id that is not stored is skipped silently
updateSubmissionStatus_skipMissing(data, submissionId, newStatus, now) ==
    LET found == Storage_getSubmission(data, submissionId)
    IN  IF found = <<>>
            THEN [outcome |-> "ok", data |-> data, ret |-> <<>>]
        ELSE LET updatedSubmission ==
                     [found[1] EXCEPT !.status = newStatus, !.updatedAt = now]
                 written == Storage_updateSubmission(data, updatedSubmission)
             IN  [outcome |-> "ok", data |-> written.data,
                  ret |-> <<updatedSubmission>>]

\* variant: the first decision wins, a later transition is answered with the
\* stored record
updateSubmissionStatus_firstWins(data, submissionId, newStatus, now) ==
    LET found == Storage_getSubmission(data, submissionId)
    IN  IF found = <<>>
            THEN [outcome |-> "not found", data |-> data, ret |-> <<>>]
        ELSE IF found[1].status # Pending
            THEN [outcome |-> "ok", data |-> data, ret |-> found]
        ELSE LET updatedSubmission ==
                     [found[1] EXCEPT !.status = newStatus, !.updatedAt = now]
                 written == Storage_updateSubmission(data, updatedSubmission)
             IN  IF written.ok
                     THEN [outcome |-> "ok", data |-> written.data,
                           ret |-> <<updatedSubmission>>]
                     ELSE [outcome |-> "not found", data |-> data, ret |-> <<>>]

updateSubmissionStatus(data, submissionId, newStatus, now) ==
    LET found == Storage_getSubmission(data, submissionId)
    IN  IF found = <<>>
            THEN [outcome |-> "not found", data |-> data, ret |-> <<>>]
        ELSE IF ~validateStatusTransition(found[1].status, newStatus)
            THEN [outcome |-> "invalid transition", data |-> data, ret |-> <<>>]
        ELSE LET updatedSubmission ==
                     [found[1] EXCEPT !.status = newStatus, !.updatedAt = now]
                 written == Storage_updateSubmission(data, updatedSubmission)
             IN  IF written.ok
                     THEN [outcome |-> "ok", data |-> written.data,
                           ret |-> <<updatedSubmission>>]
                     ELSE [outcome |-> "not found", data |-> data, ret |-> <<>>]

\* variant: the name of the action is passed where the status is expected
approveSubmission_actionName(data, submissionId, now) ==
    updateSubmissionStatus(data, submissionId, "approve", now)

approveSubmission(data, submissionId, now) ==
    updateSubmissionStatus(data, submissionId, Approved, now)

rejectSubmission(data, submissionId, now) ==
    updateSubmissionStatus(data, submissionId, Rejected, now)

getPendingSubmissions(data) == Storage_getSubmissionsByStatus(data, Pending)

getAllSubmissions(data) == Storage_getAllSubmissions(data)

getApprovedSubmissions(data) == Storage_getSubmissionsByStatus(data, Approved)

getRejectedSubmissions(data) == Storage_getSubmissionsByStatus(data, Rejected)

getSubmission(data, id) == Storage_getSubmission(data, id)

getSubmissionCounts(data) == Storage_getSubmissionCounts(data)

deleteSubmission(data, submissionId) == Storage_deleteSubmission(data, submissionId)

----------------------------------------------------------------------------
(* The Express application: email-action tokens                            *)
(* A token is base64url(id:action:timestamp:signature); the model keeps    *)
(* the decoded list of parts that verifyEmailToken obtains by split(":"),  *)
(* so a malformed token is a list of another length.  HMAC-SHA256 is an    *)
(* ideal MAC: the signature determines the key and the signed data.        *)

EMAIL_SECRET == "email-secret-key-for-secure-links"

ManagerEmailSet == TRUE     \* process.env.MANAGER_EMAIL is configured
FromEmailSet    == TRUE     \* process.env.FROM_EMAIL is configured

USERS ==
    [writer  |-> [email |-> "writer@example.com",  role |-> "writer"],
     manager |-> [email |-> "manager@example.com", role |-> "manager"]]

Hmac(key, data) == [key |-> key, data |-> data]

generateEmailToken(submissionId, action, now) ==
    <<submissionId, action, now,
      Hmac(EMAIL_SECRET, <<submissionId, action, now>>)>>

\* variant: the signature is not compared
verifyEmailToken_unsigned(token) ==
    IF Len(token) # 4 THEN <<>>
    ELSE IF token[2] # "approve" /\ token[2] # "reject" THEN <<>>
    ELSE <<[submissionId |-> token[1], action |-> token[2]]>>

verifyEmailToken(token) ==
    IF Len(token) # 4 THEN <<>>
    ELSE LET expectedSignature ==
                 Hmac(EMAIL_SECRET, <<token[1], token[2], token[3]>>)
         IN  IF token[4] # expectedSignature THEN <<>>
             ELSE IF token[2] # "approve" /\ token[2] # "reject" THEN <<>>
             ELSE <<[submissionId |-> token[1], action |-> token[2]]>>

----------------------------------------------------------------------------
(* The Express application: request handlers                               *)
(* A handler has no await before its response is decided, so it runs to    *)
(* completion once started and two requests are handled one after the      *)
(* other.  A handler yields the HTTP status, what the response says, the   *)
(* array the file holds afterwards, the record it answers with and the     *)
(* notification it hands to the email service.                             *)

Response(status, outcome, data, ret, mail) ==
    [status |-> status, outcome |-> outcome, data |-> data, ret |-> ret,
     mail |-> mail]

\* POST /api/submit; user is the identity authenticateToken resolved
submitHandler(data, user, doc, t1, t2) ==
    IF user.role # "writer"
        THEN Response(403, "Writer role required", data, <<>>, "none")
    ELSE IF doc.title = <<>> \/ doc.content = <<>>
        THEN Response(400, "Title and content are required", data, <<>>, "none")
    ELSE LET r == createSubmission(data, doc.title, doc.content,
                                   doc.opt.imageReference,
                                   doc.opt.embeddedImages,
                                   <<user.email>>, t1, t2)
         IN  IF r.outcome # "ok"
                 THEN Response(400, r.outcome, data, <<>>, "none")
                 ELSE Response(201, "created", r.data, r.ret,
                               IF ManagerEmailSet THEN "approval request"
                                                  ELSE "none")

\* GET /api/approve?post_id=..
approveHandler(data, user, postId, now) ==
    IF user.role # "manager"
        THEN Response(403, "Manager role required", data, <<>>, "none")
    ELSE IF postId = <<>>
        THEN Response(400, "post_id is required", data, <<>>, "none")
    ELSE IF getSubmission(data, postId) = <<>>
        THEN Response(404, "Submission not found", data, <<>>, "none")
    ELSE LET r == approveSubmission(data, postId, now)
         IN  IF r.outcome # "ok"
                 THEN Response(400, r.outcome, data, <<>>, "none")
                 ELSE Response(200, "approved", r.data, r.ret,
                               IF FromEmailSet THEN "confirmation" ELSE "none")

\* GET /api/reject?post_id=..
rejectHandler(data, user, postId, now) ==
    IF user.role # "manager"
        THEN Response(403, "Manager role required", data, <<>>, "none")
    ELSE IF postId = <<>>
        THEN Response(400, "post_id is required", data, <<>>, "none")
    ELSE IF getSubmission(data, postId) = <<>>
        THEN Response(404, "Submission not found", data, <<>>, "none")
    ELSE LET r == rejectSubmission(data, postId, now)
         IN  IF r.outcome # "ok"
                 THEN Response(400, r.outcome, data, <<>>, "none")
                 ELSE Response(200, "rejected", r.data, r.ret,
                               IF FromEmailSet THEN "rejection" ELSE "none")

\* variant: the status of the submission is not looked at
emailApproveHandler_anyStatus(data, token, now) ==
    IF token = <<>>
        THEN Response(400, "Invalid Link", data, <<>>, "none")
    ELSE LET tokenData == verifyEmailToken(token)
         IN  IF tokenData = <<>> \/ tokenData[1].action # "approve"
                 THEN Response(400, "Invalid or Expired Link", data, <<>>, "none")
             ELSE LET submission == getSubmission(data, tokenData[1].submissionId)
                  IN  IF submission = <<>>
                          THEN Response(404, "Submission Not Found", data, <<>>,
                                        "none")
                      ELSE LET r == approveSubmission(
                                        data, tokenData[1].submissionId, now)
                           IN  Response(200, "approved", r.data, r.ret,
                                        IF FromEmailSet THEN "confirmation"
                                                        ELSE "none")

\* GET /api/email/approve?token=..
emailApproveHandler(data, token, now) ==
    IF token = <<>>
        THEN Response(400, "Invalid Link", data, <<>>, "none")
    ELSE LET tokenData == verifyEmailToken(token)
         IN  IF tokenData = <<>> \/ tokenData[1].action # "approve"
                 THEN Response(400, "Invalid or Expired Link", data, <<>>, "none")
             ELSE LET submission == getSubmission(data, tokenData[1].submissionId)
                  IN  IF submission = <<>>
                          THEN Response(404, "Submission Not Found", data, <<>>,
                                        "none")
                      ELSE IF submission[1].status # Pending
                          THEN Response(200, "Already Processed", data,
                                        submission, "none")
                      ELSE LET r == approveSubmission(
                                        data, tokenData[1].submissionId, now)
                           IN  IF r.outcome # "ok"
                                   THEN Response(500, "Server Error", data, <<>>,
                                                 "none")
                                   ELSE Response(200, "approved", r.data, r.ret,
                                                 IF FromEmailSet
                                                     THEN "confirmation"
                                                     ELSE "none")

\* GET /api/email/reject?token=..
\* variant: the rejection link acts on a record of any status
emailRejectHandler_anyStatus(data, token, now) ==
    IF token = <<>>
        THEN Response(400, "Invalid Link", data, <<>>, "none")
    ELSE LET tokenData == verifyEmailToken(token)
         IN  IF tokenData = <<>> \/ tokenData[1].action # "reject"
                 THEN Response(400, "Invalid or Expired Link", data, <<>>, "none")
             ELSE LET submission == getSubmission(data, tokenData[1].submissionId)
                  IN  IF submission = <<>>
                          THEN Response(404, "Submission Not Found", data, <<>>,
                                        "none")
                      ELSE LET r == rejectSubmission(
                                        data, tokenData[1].submissionId, now)
                           IN  IF r.outcome # "ok"
                                   THEN Response(500, "Server Error", data, <<>>,
                                                 "none")
                                   ELSE Response(200, "rejected", r.data, r.ret,
                                                 IF FromEmailSet
                                                     THEN "rejection"
                                                     ELSE "none")

emailRejectHandler(data, token, now) ==
    IF token = <<>>
        THEN Response(400, "Invalid Link", data, <<>>, "none")
    ELSE LET tokenData == verifyEmailToken(token)
         IN  IF tokenData = <<>> \/ tokenData[1].action # "reject"
                 THEN Response(400, "Invalid or Expired Link", data, <<>>, "none")
             ELSE LET submission == getSubmission(data, tokenData[1].submissionId)
                  IN  IF submission = <<>>
                          THEN Response(404, "Submission Not Found", data, <<>>,
                                        "none")
                      ELSE IF submission[1].status # Pending
                          THEN Response(200, "Already Processed", data,
                                        submission, "none")
                      ELSE LET r == rejectSubmission(
                                        data, tokenData[1].submissionId, now)
                           IN  IF r.outcome # "ok"
                                   THEN Response(500, "Server Error", data, <<>>,
                                                 "none")
                                   ELSE Response(200, "rejected", r.data, r.ret,
                                                 IF FromEmailSet
                                                     THEN "rejection"
                                                     ELSE "none")

----------------------------------------------------------------------------
(* Inputs the environment offers                                           *)

\* createSubmission arguments: the failing shapes of title and content and
\* two valid documents, one bare and one with every optional field
Bare     == [imageReference |-> <<>>, embeddedImages |-> <<>>, writerEmail |-> <<>>]

Full ==
    [imageReference |-> <<"image.png">>,
     embeddedImages |-> << <<"data:image/png;base64">> >>,
     writerEmail    |-> <<USERS.writer.email>>]

Documents ==
    { [title |-> <<>>,                content |-> <<"c">>,      opt |-> Bare],
      [title |-> <<" ", " ">>,        content |-> <<"c">>,      opt |-> Bare],
      [title |-> <<"A">>,             content |-> <<>>,         opt |-> Bare],
      [title |-> <<"A">>,             content |-> <<" ">>,      opt |-> Full],
      [title |-> <<" ", "A", " ">>,   content |-> <<" ", "c">>, opt |-> Bare],
      [title |-> <<"B">>,             content |-> <<"d", " ">>, opt |-> Full] }

UnknownId == <<"i", "n", "v", "a", "l", "i", "d", "-", "i", "d">>

\* records handed to the Storage class directly, as its tests do: any id,
\* status and creation time, in any order; "999" is never saved
StorageIds == { <<"1">>, <<"2">> }

MissingId == <<"9", "9", "9">>

StorageRecord(id, status, time) ==
    [id |-> id, title |-> <<"T">>, content |-> <<"c">>,
     imageReference |-> <<>>, embeddedImages |-> <<>>, writerEmail |-> <<>>,
     status |-> status, createdAt |-> time, updatedAt |-> time]

SavedRecords ==
    { StorageRecord(id, status, time) :
          id \in StorageIds, status \in SubmissionStatus, time \in StartTime..MaxClock }

UpdatedRecords ==
    { StorageRecord(id, status, StartTime) :
          id \in StorageIds \cup {MissingId}, status \in SubmissionStatus }

\* the array every operation starts from, and the file a call leaves: the
\* array printed again when the call changed it, the file as it is otherwise
Records == readFile(file, damaged)

Written(before, after) == IF after = before THEN file ELSE writeData(after)

StoredIds == IF damaged = "no" THEN { file[i].id : i \in DOMAIN file } ELSE {}

\* ids a caller may name: those in the store and one that never is
CallIds == StoredIds \cup {UnknownId}

NoCall ==
    [op |-> "none", id |-> <<>>, arg |-> "", status |-> 0, outcome |-> "",
     before |-> <<>>, ret |-> <<>>, mail |-> "none", doc |-> <<>>, io |-> "ok"]

\* doc is the document, record or token handed to the call, if it takes
\* one; io tells whether a write of the data file failed during the call
Call(op, id, arg, status, outcome, before, ret, mail) ==
    [op |-> op, id |-> id, arg |-> arg, status |-> status, outcome |-> outcome,
     before |-> before, ret |-> ret, mail |-> mail, doc |-> <<>>, io |-> "ok"]

\* history of transitions: a successful transition of id to status replaces
\* what was recorded for id; a delete forgets id
Transitioned(id, status, done) ==
    IF done
        THEN { p \in applied : p.id # id } \cup { [id |-> id, status |-> status] }
        ELSE applied

Forgotten(id) == { p \in applied : p.id # id }

----------------------------------------------------------------------------
(* Direct calls of the workflow engine                                     *)

Init ==
    /\ file = ensureDataFile(FALSE, <<>>)
    /\ clock = StartTime
    /\ mailbox = {}
    /\ last = NoCall
    /\ applied = {}
    /\ tokenBlacklist = {}
    /\ damaged = "no"

Tick ==
    /\ clock < MaxClock
    /\ clock' = clock + 1
    /\ UNCHANGED <<file, mailbox, last, applied, tokenBlacklist, damaged>>

\* the clock readings a call takes: the one at entry and a later one, which
\* is the same or the next millisecond
LaterReadings == { t \in {clock, clock + 1} : t <= MaxClock }

CreateSubmission ==
    /\ Len(file) < MaxRecords
    /\ LET data == Records IN
       \E doc \in Documents, t2 \in LaterReadings :
          LET r == createSubmission(data, doc.title, doc.content,
                                    doc.opt.imageReference,
                                    doc.opt.embeddedImages,
                                    doc.opt.writerEmail, clock, t2)
          IN  /\ file' = Written(data, r.data)
              /\ clock' = t2
              /\ last' = [Call("createSubmission", <<>>, "", 0, r.outcome,
                               <<>>, r.ret, "none") EXCEPT !.doc = <<doc>>]
    /\ UNCHANGED <<mailbox, applied, tokenBlacklist, damaged>>

UpdateSubmissionStatus ==
    LET data == Records IN
    \E id \in CallIds, newStatus \in SubmissionStatus :
        LET r == updateSubmissionStatus(data, id, newStatus, clock)
        IN  /\ file' = Written(data, r.data)
            /\ last' = Call("updateSubmissionStatus", id, newStatus, 0,
                            r.outcome, getSubmission(data, id), r.ret, "none")
            /\ applied' = Transitioned(id, newStatus, r.outcome = "ok")
            /\ UNCHANGED <<clock, mailbox, tokenBlacklist, damaged>>

ApproveSubmission ==
    LET data == Records IN
    \E id \in CallIds :
        LET r == approveSubmission(data, id, clock)
        IN  /\ file' = Written(data, r.data)
            /\ last' = Call("approveSubmission", id, Approved, 0, r.outcome,
                            getSubmission(data, id), r.ret, "none")
            /\ applied' = Transitioned(id, Approved, r.outcome = "ok")
            /\ UNCHANGED <<clock, mailbox, tokenBlacklist, damaged>>

RejectSubmission ==
    LET data == Records IN
    \E id \in CallIds :
        LET r == rejectSubmission(data, id, clock)
        IN  /\ file' = Written(data, r.data)
            /\ last' = Call("rejectSubmission", id, Rejected, 0, r.outcome,
                            getSubmission(data, id), r.ret, "none")
            /\ applied' = Transitioned(id, Rejected, r.outcome = "ok")
            /\ UNCHANGED <<clock, mailbox, tokenBlacklist, damaged>>

DeleteSubmission ==
    LET data == Records IN
    \E id \in CallIds :
        LET r == deleteSubmission(data, id)
        IN  /\ file' = Written(data, r.data)
            /\ last' = Call("deleteSubmission", id, "", 0,
                            IF r.deleted THEN "true" ELSE "false",
                            getSubmission(data, id), <<>>, "none")
            /\ applied' = Forgotten(id)
            /\ UNCHANGED <<clock, mailbox, tokenBlacklist, damaged>>

ClearAll ==
    /\ file # <<>>
    /\ LET r == clearAll(Records)
       IN  /\ file' = writeData(r.data)
           /\ last' = Call("clearAll", <<>>, "", r.count, "ok",
                           <<>>, <<>>, "none")
    /\ applied' = {}
    /\ UNCHANGED <<clock, mailbox, tokenBlacklist, damaged>>

----------------------------------------------------------------------------
(* Direct calls of the Storage class                                       *)

StorageSave ==
    /\ Len(file) < MaxRecords
    /\ \E submission \in SavedRecords :
          /\ file' = writeData(saveSubmission(Records, submission))
          /\ last' = [Call("Storage.saveSubmission", submission.id, "", 0, "ok",
                           <<>>, <<>>, "none") EXCEPT !.doc = <<submission>>]
    /\ UNCHANGED <<clock, mailbox, applied, tokenBlacklist, damaged>>

StorageUpdate ==
    LET data == Records IN
    \E submission \in UpdatedRecords :
        LET r == Storage_updateSubmission(data, submission)
        IN  /\ file' = Written(data, r.data)
            /\ last' = [Call("Storage.updateSubmission", submission.id, "", 0,
                             IF r.ok THEN "ok" ELSE "not found",
                             getSubmission(data, submission.id), <<>>, "none")
                            EXCEPT !.doc = <<submission>>]
            /\ UNCHANGED <<clock, mailbox, applied, tokenBlacklist, damaged>>

----------------------------------------------------------------------------
(* The workflow engine on a data file that can be damaged or refuse writes *)

Damages == {"unparseable", "not an array", "unreadable"}

ValidDocuments == { doc \in Documents : Trim(doc.title) # <<>> /\ Trim(doc.content) # <<>> }

\* the data file after a call: written anew, left alone when nothing was
\* written, and after a failed write either as it was or cut short
DiskAfter(attempted, writable, torn, after) ==
    /\ file' = IF attempted /\ writable THEN writeData(after) ELSE file
    /\ damaged' = IF ~attempted THEN damaged
                  ELSE IF writable THEN "no"
                  ELSE IF torn THEN "unparseable"
                  ELSE damaged

IoOf(attempted, writable) == IF attempted /\ ~writable THEN "write failed" ELSE "ok"

DamageFile ==
    /\ damaged = "no"
    /\ \E state \in Damages : damaged' = state
    /\ UNCHANGED <<file, clock, mailbox, last, applied, tokenBlacklist>>

CreateOnDisk ==
    /\ Len(file) < MaxRecords
    /\ LET data == Records IN
       \E doc \in ValidDocuments, writable \in BOOLEAN, torn \in BOOLEAN :
          LET done == createSubmission(data, doc.title, doc.content,
                                       doc.opt.imageReference,
                                       doc.opt.embeddedImages,
                                       doc.opt.writerEmail, clock, clock)
              attempted == done.outcome = "ok"
              r == IF attempted /\ ~writable THEN writeFailure(done, data) ELSE done
          IN  /\ DiskAfter(attempted, writable, torn, done.data)
              /\ last' = [Call("createSubmission", <<>>, "", 0, r.outcome,
                               <<>>, r.ret, "none")
                              EXCEPT !.doc = <<doc>>,
                                     !.io = IoOf(attempted, writable)]
    /\ UNCHANGED <<clock, mailbox, applied, tokenBlacklist>>

ApproveOnDisk ==
    LET data == Records IN
    \E id \in CallIds, writable \in BOOLEAN, torn \in BOOLEAN :
        LET done == approveSubmission(data, id, clock)
            attempted == done.outcome = "ok"
            r == IF attempted /\ ~writable THEN writeFailure(done, data) ELSE done
        IN  /\ DiskAfter(attempted, writable, torn, done.data)
            /\ last' = [Call("approveSubmission", id, Approved, 0, r.outcome,
                             getSubmission(data, id), r.ret, "none")
                            EXCEPT !.io = IoOf(attempted, writable)]
            /\ UNCHANGED <<clock, mailbox, applied, tokenBlacklist>>

DeleteOnDisk ==
    LET data == Records IN
    \E id \in CallIds, writable \in BOOLEAN, torn \in BOOLEAN :
        LET deleted == deleteSubmission(data, id)
            done == [outcome |-> IF deleted.deleted THEN "true" ELSE "false",
                     data |-> deleted.data, ret |-> <<>>]
            attempted == deleted.deleted
            r == IF attempted /\ ~writable THEN writeFailure(done, data) ELSE done
        IN  /\ DiskAfter(attempted, writable, torn, done.data)
            /\ last' = [Call("deleteSubmission", id, "", 0, r.outcome,
                             getSubmission(data, id), r.ret, "none")
                            EXCEPT !.io = IoOf(attempted, writable)]
            /\ UNCHANGED <<clock, mailbox, applied, tokenBlacklist>>

ClearOnDisk ==
    LET data == Records IN
    \E writable \in BOOLEAN, torn \in BOOLEAN :
        LET cleared == clearAll(data)
            done == [outcome |-> "ok", data |-> cleared.data, ret |-> <<>>]
            r == IF ~writable THEN writeFailure(done, data) ELSE done
        IN  /\ DiskAfter(TRUE, writable, torn, done.data)
            /\ last' = [Call("clearAll", <<>>, "",
                             IF writable THEN cleared.count ELSE 0, r.outcome,
                             <<>>, r.ret, "none")
                            EXCEPT !.io = IoOf(TRUE, writable)]
            /\ UNCHANGED <<clock, mailbox, applied, tokenBlacklist>>

CountOnDisk ==
    /\ last' = Call("getSubmissionCounts", <<>>, damaged,
                    getSubmissionCounts(Records).total, "ok", <<>>, <<>>, "none")
    /\ UNCHANGED <<file, clock, mailbox, applied, tokenBlacklist, damaged>>

----------------------------------------------------------------------------
(* Requests to the Express application                                     *)

Users == {USERS.writer, USERS.manager}

\* tokens a request may carry: those the manager received, the same with the
\* action altered, one signed with another key, a malformed and a missing one
FlipAction(token) ==
    [token EXCEPT ![2] = IF token[2] = "approve" THEN "reject" ELSE "approve"]

RequestTokens ==
    mailbox
    \cup { FlipAction(token) : token \in mailbox }
    \cup { <<id, "approve", clock, Hmac("guess", <<id, "approve", clock>>)>> :
             id \in StoredIds }
    \cup { <<UnknownId, "approve", "x">>, <<>> }

\* the submission a token names, read from its first part
TokenId(token) == IF token = <<>> THEN <<>> ELSE token[1]

PostSubmit ==
    /\ Len(file) < MaxRecords
    /\ LET data == Records IN
       \E user \in Users, doc \in Documents, t2 \in LaterReadings :
          LET r == submitHandler(data, user, doc, clock, t2)
          IN  /\ file' = Written(data, r.data)
              /\ clock' = t2
              /\ mailbox' =
                     IF r.mail = "approval request"
                         THEN mailbox \cup
                                  { generateEmailToken(r.ret[1].id, "approve", t2),
                                    generateEmailToken(r.ret[1].id, "reject", t2) }
                         ELSE mailbox
              /\ last' = Call("POST /api/submit", <<>>, "", r.status, r.outcome,
                              <<>>, r.ret, r.mail)
              /\ UNCHANGED <<applied, tokenBlacklist, damaged>>

GetApprove ==
    LET data == Records IN
    \E user \in Users, postId \in CallIds \cup {<<>>} :
        LET r == approveHandler(data, user, postId, clock)
        IN  /\ file' = Written(data, r.data)
            /\ last' = Call("GET /api/approve", postId, Approved, r.status,
                            r.outcome, getSubmission(data, postId), r.ret, r.mail)
            /\ applied' = Transitioned(postId, Approved, r.outcome = "approved")
            /\ UNCHANGED <<clock, mailbox, tokenBlacklist, damaged>>

GetReject ==
    LET data == Records IN
    \E user \in Users, postId \in CallIds \cup {<<>>} :
        LET r == rejectHandler(data, user, postId, clock)
        IN  /\ file' = Written(data, r.data)
            /\ last' = Call("GET /api/reject", postId, Rejected, r.status,
                            r.outcome, getSubmission(data, postId), r.ret, r.mail)
            /\ applied' = Transitioned(postId, Rejected, r.outcome = "rejected")
            /\ UNCHANGED <<clock, mailbox, tokenBlacklist, damaged>>

GetEmailApprove ==
    LET data == Records IN
    \E token \in RequestTokens :
        LET r == emailApproveHandler(data, token, clock)
        IN  /\ file' = Written(data, r.data)
            /\ last' = [Call("GET /api/email/approve", TokenId(token), Approved,
                             r.status, r.outcome,
                             getSubmission(data, TokenId(token)), r.ret, r.mail)
                            EXCEPT !.doc = <<token>>]
            /\ applied' = Transitioned(TokenId(token), Approved, r.outcome = "approved")
            /\ UNCHANGED <<clock, mailbox, tokenBlacklist, damaged>>

GetEmailReject ==
    LET data == Records IN
    \E token \in RequestTokens :
        LET r == emailRejectHandler(data, token, clock)
        IN  /\ file' = Written(data, r.data)
            /\ last' = [Call("GET /api/email/reject", TokenId(token), Rejected,
                             r.status, r.outcome,
                             getSubmission(data, TokenId(token)), r.ret, r.mail)
                            EXCEPT !.doc = <<token>>]
            /\ applied' = Transitioned(TokenId(token), Rejected, r.outcome = "rejected")
            /\ UNCHANGED <<clock, mailbox, tokenBlacklist, damaged>>

Next ==
    \/ Tick
    \/ CreateSubmission
    \/ UpdateSubmissionStatus
    \/ ApproveSubmission
    \/ RejectSubmission
    \/ DeleteSubmission
    \/ ClearAll

\* the same store driven through the HTTP surface only
NextHttp ==
    \/ Tick
    \/ PostSubmit
    \/ GetApprove
    \/ GetReject
    \/ GetEmailApprove
    \/ GetEmailReject

\* the Storage class called directly, next to the workflow's transitions
NextStorage ==
    \/ StorageSave
    \/ StorageUpdate
    \/ ApproveSubmission
    \/ DeleteSubmission
    \/ ClearAll

\* the workflow engine on a disk that fails
NextFile ==
    \/ Tick
    \/ DamageFile
    \/ CreateOnDisk
    \/ ApproveOnDisk
    \/ DeleteOnDisk
    \/ ClearOnDisk
    \/ CountOnDisk

Spec == Init /\ [][Next]_vars

SpecHttp == Init /\ [][NextHttp]_vars

SpecStorage == Init /\ [][NextStorage]_vars

SpecFile == Init /\ [][NextFile]_vars

TypeOK ==
    /\ clock \in StartTime..MaxClock
    /\ Len(file) <= MaxRecords
    /\ \A p \in applied : p.id \in StoredIds

----------------------------------------------------------------------------
(* Properties                                                              *)

TransitionCalls == {"updateSubmissionStatus", "approveSubmission", "rejectSubmission"}

ApprovalCalls == {"updateSubmissionStatus", "approveSubmission"}

WebRequests   == {"GET /api/approve", "GET /api/reject"}
EmailRequests == {"GET /api/email/approve", "GET /api/email/reject"}

\* answers that turn a request away before it reaches the workflow engine
TurnedAway ==
    {"Manager role required", "post_id is required", "Invalid Link",
     "Invalid or Expired Link"}

Stored(id) == getSubmission(Records, id)[1]

\* C1: two approvals of a Pending submission issued one after the other: the
\* second succeeds, returns the Approved record and leaves updatedAt as the
\* first approval set it, so that updatedAt changes exactly once.
C1_SecondApprovalKeepsUpdatedAt ==
    [][ ( /\ last.op \in ApprovalCalls
          /\ last.arg = Approved
          /\ last.outcome = "ok"
          /\ last.before # <<>>
          /\ last.before[1].status = Pending
          /\ last'.op \in ApprovalCalls
          /\ last'.arg = Approved
          /\ last'.id = last.id
          /\ last'.before = last.ret )
        => ( /\ last'.outcome = "ok"
             /\ last'.ret # <<>>
             /\ last'.ret[1].status = Approved
             /\ last'.ret[1].updatedAt = last.ret[1].updatedAt
             /\ getSubmission(readData(file'), last.id) = getSubmission(Records, last.id) )
      ]_vars

\* C2: updateSubmissionStatus(id, s) on a record whose status is already s
\* succeeds and leaves the stored record, updatedAt included, as it was.
C2_SameStatusLeavesRecord ==
    ( /\ last.op = "updateSubmissionStatus"
      /\ last.before # <<>>
      /\ last.before[1].status = last.arg )
    => ( /\ last.outcome = "ok"
         /\ getSubmission(Records, last.id) = last.before )

\* C3: a web action and an email-link action on the same Pending submission,
\* handled one after the other in either order: the second is answered
\* without error as "Already Processed" and writes nothing.
C3_SecondChannelAlreadyProcessed ==
    [][ ( /\ last.op \in WebRequests \cup EmailRequests
          /\ last.outcome \in {"approved", "rejected"}
          /\ last.before # <<>>
          /\ last.before[1].status = Pending
          /\ last'.op \in WebRequests \cup EmailRequests
          /\ (last.op \in WebRequests) # (last'.op \in WebRequests)
          /\ last'.id = last.id
          /\ last'.outcome \notin TurnedAway )
        => ( /\ last'.status = 200
             /\ last'.outcome = "Already Processed"
             /\ file' = file )
      ]_vars

\* C4: no two records of the store have the same id.
C4_UniqueIds ==
    \A i, j \in DOMAIN file : i # j => file[i].id # file[j].id

\* C5: the status of every stored record is Pending, Approved or Rejected.
C5_StatusInEnum ==
    \A i \in DOMAIN file : file[i].status \in SubmissionStatus

C5_Witness ==
    /\ last.op = "deleteSubmission"
    /\ last.outcome = "true"
    /\ \E i \in DOMAIN file : file[i].status = Rejected
    /\ applied # {}

\* C6: createdAt <= updatedAt for every stored record.
C6_CreatedNotAfterUpdated ==
    \A i \in DOMAIN file : file[i].createdAt <= file[i].updatedAt

C6_Witness ==
    /\ \E i \in DOMAIN file :
          /\ file[i].status # Pending
          /\ file[i].createdAt < file[i].updatedAt
    /\ \E j \in DOMAIN file : ToDecimal(file[j].createdAt) # file[j].id

\* C7: id, title, content, writerEmail and createdAt of a record stay as
\* they were at creation: a step that removes nothing keeps them in every
\* record, and a step that removes records leaves the others as they were.
SameCreation(a, b) ==
    /\ a.id = b.id
    /\ a.title = b.title
    /\ a.content = b.content
    /\ a.writerEmail = b.writerEmail
    /\ a.createdAt = b.createdAt

C7_CreationFieldsKept ==
    [][ IF Len(file') >= Len(file)
            THEN \A i \in DOMAIN file : SameCreation(Records[i], readData(file')[i])
            ELSE \A j \in DOMAIN file' : \E i \in DOMAIN file : file'[j] = file[i]
      ]_vars

C7_Witness ==
    /\ Len(file) = 2
    /\ last.op \in TransitionCalls
    /\ last.outcome = "ok"
    /\ last.before[1].status # last.arg
    /\ last.ret[1].updatedAt > last.ret[1].createdAt
    /\ last.ret[1].writerEmail # <<>>

\* C8: a transition of an existing id succeeds whatever the current status
\* and leaves the stored status equal to the requested one.
C8_NoTransitionBlocked ==
    ( /\ last.op \in TransitionCalls
      /\ last.before # <<>> )
    => ( /\ last.outcome = "ok"
         /\ getSubmission(Records, last.id) # <<>>
         /\ Stored(last.id).status = last.arg )

C8_Witness ==
    /\ last.op = "updateSubmissionStatus"
    /\ last.before # <<>>
    /\ last.before[1].status = Rejected
    /\ last.arg = Approved
    /\ Stored(last.id).status = Approved

\* C9: a transition that changes the status sets updatedAt strictly later
\* than the record's previous updatedAt.
C9_UpdatedAtStrictlyLater ==
    ( /\ last.op \in TransitionCalls
      /\ last.outcome = "ok"
      /\ last.before[1].status # last.arg )
    => last.ret[1].updatedAt > last.before[1].updatedAt

\* C10: the last mutation wins: for every id, as long as it is not deleted,
\* the stored status is the one its last successful transition asked for.
C10_LastTransitionWins ==
    \A p \in applied :
        /\ getSubmission(Records, p.id) # <<>>
        /\ Stored(p.id).status = p.status

C10_Witness ==
    /\ Len(file) = 2
    /\ last.op = "createSubmission"
    /\ last.outcome = "ok"
    /\ \E p \in applied : p.status = Pending /\ Stored(p.id).updatedAt > Stored(p.id).createdAt

----------------------------------------------------------------------------
(* Reads after writes, failures, queries and the data file                 *)

Listed(array, record) == \E i \in DOMAIN array : array[i] = record

\* C11: once createSubmission or a status transition has returned a record,
\* and until the next mutation, getSubmission of its id returns an equal
\* record, getAllSubmissions and getSubmissionsByStatus list it and
\* getSubmissionCounts counts it.
C11_ReadAfterWrite ==
    (last.op \in {"createSubmission"} \cup TransitionCalls /\ last.outcome = "ok")
    => LET data == Records
           written == last.ret[1]
       IN  /\ getSubmission(data, written.id) = last.ret
           /\ Listed(getAllSubmissions(data), written)
           /\ Listed(Storage_getSubmissionsByStatus(data, written.status), written)
           /\ getSubmissionCounts(data).total = Len(data)

\* C12: a status transition (updateSubmissionStatus, approveSubmission,
\* rejectSubmission) of an id that is not in the store fails with the
\* not-found error and leaves the file as it was; getSubmission of that id
\* returns absent.
C12_MissingIdNotFound ==
    [][ (last'.op \in TransitionCalls /\ last'.id \notin StoredIds)
        => /\ last'.outcome = "not found"
           /\ last'.ret = <<>>
           /\ file' = file
           /\ getSubmission(readData(file'), last'.id) = <<>> ]_vars

C12_Witness ==
    /\ last.op = "rejectSubmission"
    /\ last.outcome = "not found"
    /\ last.id = UnknownId
    /\ file # <<>>
    /\ getSubmission(Records, last.id) = <<>>

UpdateCalls == {"Storage.updateSubmission"} \cup TransitionCalls

\* C13: Storage.updateSubmission is no upsert: for a record whose id is not
\* in the collection it raises not-found and writes nothing; no update and
\* no status transition changes the number of records or the ids stored,
\* so an id that was deleted is not brought back by one.
C13_UpdateNeverInserts ==
    [][ last'.op \in UpdateCalls
        => /\ Len(file') = Len(file)
           /\ { file'[i].id : i \in DOMAIN file' } = StoredIds
           /\ last'.id \notin StoredIds
                  => last'.outcome = "not found" /\ file' = file ]_vars

C13_Witness ==
    /\ last.op = "Storage.updateSubmission"
    /\ last.outcome = "not found"
    /\ last.id \in StorageIds
    /\ file # <<>>
    /\ last.id \notin StoredIds

\* a text that is empty or made of spaces only
Blank(text) == \A i \in DOMAIN text : text[i] = " "

\* a step in which a call was made: every call writes its history, and a
\* call repeated with the same answer leaves the file as it is
CallMade == last' # last \/ file' # file

\* C14: createSubmission with an empty or whitespace-only title fails with
\* "Title is required", and with a valid title and an empty or
\* whitespace-only content fails with "Content is required"; nothing is
\* saved and the file is as it was.
C14_BlankInputRefused ==
    [][ (last'.op = "createSubmission" /\ CallMade)
        => LET doc == last'.doc[1]
           IN  /\ Blank(doc.title)
                     => /\ last'.outcome = "Title is required"
                        /\ last'.ret = <<>>
                        /\ file' = file
               /\ (~Blank(doc.title) /\ Blank(doc.content))
                     => /\ last'.outcome = "Content is required"
                        /\ last'.ret = <<>>
                        /\ file' = file ]_vars

C14_Witness ==
    /\ last.op = "createSubmission"
    /\ last.outcome = "Title is required"
    /\ last.doc[1].title # <<>>
    /\ Blank(last.doc[1].title)
    /\ file # <<>>

\* trimmed is text without the spaces at its two ends
IsTrimOf(trimmed, text) ==
    /\ trimmed # <<>> => trimmed[1] # " " /\ trimmed[Len(trimmed)] # " "
    /\ \E before \in 0..Len(text) :
          /\ before + Len(trimmed) <= Len(text)
          /\ SubSeq(text, before + 1, before + Len(trimmed)) = trimmed
          /\ \A i \in 1..before : text[i] = " "
          /\ \A i \in (before + Len(trimmed) + 1)..Len(text) : text[i] = " "

\* C15: createSubmission on valid input adds exactly one record, the one it
\* returns, behind the records stored before, which are unchanged: status
\* Pending, createdAt equal to updatedAt, title and content the trimmed
\* inputs, and the optional fields as the caller gave them.
C15_CreateAddsOneRecord ==
    [][ (last'.op = "createSubmission" /\ CallMade
            /\ ~Blank(last'.doc[1].title) /\ ~Blank(last'.doc[1].content))
        => LET doc == last'.doc[1]
               old == Records
               new == readData(file')
           IN  /\ last'.outcome = "ok"
               /\ Len(new) = Len(old) + 1
               /\ SubSeq(new, 1, Len(old)) = old
               /\ <<new[Len(new)]>> = last'.ret
               /\ last'.ret[1].status = Pending
               /\ last'.ret[1].createdAt = last'.ret[1].updatedAt
               /\ IsTrimOf(last'.ret[1].title, doc.title)
               /\ IsTrimOf(last'.ret[1].content, doc.content)
               /\ last'.ret[1].imageReference = doc.opt.imageReference
               /\ last'.ret[1].embeddedImages = doc.opt.embeddedImages
               /\ last'.ret[1].writerEmail = doc.opt.writerEmail ]_vars

C15_Witness ==
    /\ last.op = "createSubmission"
    /\ last.outcome = "ok"
    /\ Len(file) = 2
    /\ last.doc[1].title # last.ret[1].title
    /\ last.ret[1].writerEmail = <<>>
    /\ Records[1].writerEmail # <<>>
    /\ Records[1].status # Pending

\* the array without its element at index
RemoveAt(array, index) ==
    SubSeq(array, 1, index - 1) \o SubSeq(array, index + 1, Len(array))

\* C16: deleteSubmission of an id in the store returns true, removes the
\* record of that id (the one getSubmission returns) whatever its status,
\* leaves every other record as it was and makes getSubmission of the id
\* return absent; of an id not in the store it returns false and leaves the
\* file as it was.
C16_DeleteRemovesThatRecord ==
    [][ (last'.op = "deleteSubmission" /\ CallMade)
        => LET old == Records
               new == readData(file')
           IN  IF last'.id \in StoredIds
                   THEN /\ last'.outcome = "true"
                        /\ getSubmission(new, last'.id) = <<>>
                        /\ new = RemoveAt(old, findIndex(old, last'.id))
                   ELSE /\ last'.outcome = "false"
                        /\ file' = file ]_vars

\* a holds the elements of b, each as often as b does
IsRearrangement(a, b) ==
    /\ Len(a) = Len(b)
    /\ \E p \in [DOMAIN a -> DOMAIN b] :
          /\ \A i, j \in DOMAIN a : i # j => p[i] # p[j]
          /\ \A i \in DOMAIN a : a[i] = b[p[i]]

NewestFirst(array) ==
    \A i, j \in DOMAIN array : i < j => array[i].createdAt >= array[j].createdAt

\* C17: getAllSubmissions returns every stored record exactly once, by
\* createdAt descending, whatever the order in which the records were saved
\* and whatever updates were applied since.
C17_AllNewestFirst ==
    LET all == getAllSubmissions(Records)
    IN  /\ IsRearrangement(all, Records)
        /\ NewestFirst(all)

C17_Witness ==
    /\ Len(file) = 2
    /\ file[1].createdAt < file[2].createdAt
    /\ last.op = "approveSubmission"
    /\ last.outcome = "ok"
    /\ getAllSubmissions(Records)[1] = Records[2]

\* C18: getSubmissionsByStatus(s), and the workflow's pending / approved /
\* rejected lists, hold exactly the stored records whose status is s, in the
\* order getAllSubmissions gives them; the three lists are pairwise disjoint
\* and together hold every record.
C18_ByStatusFiltersAll ==
    LET data == Records
        all == getAllSubmissions(data)
        list == [s \in SubmissionStatus |-> Storage_getSubmissionsByStatus(data, s)]
    IN  /\ \A s \in SubmissionStatus :
              list[s] = SelectSeq(all, LAMBDA record : record.status = s)
        /\ getPendingSubmissions(data) = list[Pending]
        /\ getApprovedSubmissions(data) = list[Approved]
        /\ getRejectedSubmissions(data) = list[Rejected]
        /\ \A s, t \in SubmissionStatus :
              s # t => \A i \in DOMAIN list[s] : ~Listed(list[t], list[s][i])
        /\ Len(list[Pending]) + Len(list[Approved]) + Len(list[Rejected]) = Len(data)

C18_Witness ==
    /\ Len(file) = 2
    /\ file[1].createdAt < file[2].createdAt
    /\ file[1].status = Rejected
    /\ file[2].status = Rejected
    /\ getRejectedSubmissions(Records) = <<Records[2], Records[1]>>

CountOf(array, status) ==
    Cardinality({ i \in DOMAIN array : array[i].status = status })

\* C19: in every reachable state getSubmissionCounts agrees with
\* getAllSubmissions: total is the number of records, pending, approved and
\* rejected are the numbers of records of that status, and the three add up
\* to total.
C19_CountsAgree ==
    LET all == getAllSubmissions(Records)
        counts == getSubmissionCounts(Records)
    IN  /\ counts.total = Len(all)
        /\ counts.pending = CountOf(all, Pending)
        /\ counts.approved = CountOf(all, Approved)
        /\ counts.rejected = CountOf(all, Rejected)
        /\ counts.pending + counts.approved + counts.rejected = counts.total

C19_Witness ==
    /\ getSubmissionCounts(Records).total = 2
    /\ getSubmissionCounts(Records).rejected = 1
    /\ getSubmissionCounts(Records).approved = 1
    /\ last.op = "Storage.updateSubmission"
    /\ last.outcome = "ok"

\* what a newly constructed Storage reads: its constructor finds the data
\* file in place, and the array is parsed from it
NewInstance == readData(ensureDataFile(TRUE, file))

\* C20: a record created or updated through one instance is returned by a
\* newly constructed instance reading the same data file with the same
\* value in every field, an optional field that was not given being absent.
C20_PersistenceRoundTrip ==
    (last.op \in {"createSubmission"} \cup TransitionCalls /\ last.outcome = "ok")
    => /\ Listed(getAllSubmissions(NewInstance), last.ret[1])
       /\ Listed(Storage_getSubmissionsByStatus(NewInstance, last.ret[1].status),
                 last.ret[1])

C20_Witness ==
    /\ last.op \in TransitionCalls
    /\ last.outcome = "ok"
    /\ last.ret[1].writerEmail = <<>>
    /\ "writerEmail" \notin DOMAIN file[1]
    /\ Len(file) = 2
    /\ "embeddedImages" \in DOMAIN file[2]
    /\ NewInstance[2].embeddedImages = Full.embeddedImages

----------------------------------------------------------------------------
(* Email-action tokens, failures of the collaborators, logout              *)

\* the token carries the signature of its own three data parts
Signed(token) ==
    /\ Len(token) = 4
    /\ token[4] = Hmac(EMAIL_SECRET, <<token[1], token[2], token[3]>>)

EndpointAction(op) == IF op = "GET /api/email/approve" THEN "approve" ELSE "reject"

\* the request carried a signed token made for the endpoint it was sent to
TokenFitsEndpoint(call) ==
    /\ Signed(call.doc[1])
    /\ call.doc[1][2] = EndpointAction(call.op)

\* C21: an email-action request with a validly signed token for a
\* submission that is no longer Pending is answered "Already Processed";
\* the file is left as it is and no notification is sent.
C21_ReplayAlreadyProcessed ==
    [][ ( /\ last'.op \in EmailRequests
          /\ TokenFitsEndpoint(last')
          /\ last'.before # <<>>
          /\ last'.before[1].status # Pending )
        => ( /\ last'.status = 200
             /\ last'.outcome = "Already Processed"
             /\ last'.mail = "none"
             /\ file' = file
             /\ mailbox' = mailbox ) ]_vars

C21_Witness ==
    /\ last.op = "GET /api/email/approve"
    /\ last.doc[1] \in mailbox
    /\ last.before # <<>>
    /\ last.before[1].status = Approved
    /\ last.before[1].updatedAt < clock
    /\ last.outcome = "Already Processed"

\* C22: an email-action request whose token is malformed, carries a
\* signature that does not match its data, or names the action of the other
\* endpoint is refused, and no record is changed.
C22_UnverifiedTokenRefused ==
    [][ (last'.op \in EmailRequests /\ ~TokenFitsEndpoint(last'))
        => ( /\ last'.status = 400
             /\ last'.mail = "none"
             /\ file' = file ) ]_vars

C22_Witness ==
    /\ last.op = "GET /api/email/reject"
    /\ last.doc[1] \in mailbox
    /\ last.doc[1][2] = "approve"
    /\ last.before # <<>>
    /\ last.before[1].status = Pending
    /\ last.status = 400
    /\ Stored(last.id).status = Pending

\* C24: a failed write of the data file is never silent: the call in
\* which it happens (a save, an update, a delete or clearAll) ends with the
\* error of writeData and returns no record.
C24_WriteFailureRaised ==
    last.io = "write failed"
    => /\ last.outcome = "Failed to save submission to file"
       /\ last.ret = <<>>

C24_Witness ==
    /\ last.op = "approveSubmission"
    /\ last.io = "write failed"
    /\ last.before # <<>>
    /\ damaged = "no"
    /\ Stored(last.id).status = Pending

\* C25: a data file that cannot be read, cannot be parsed or does not hold
\* an array is an empty collection to every read: the lists are empty,
\* every count is 0 and getSubmission returns absent.
C25_DamagedFileReadsEmpty ==
    /\ (last.op = "getSubmissionCounts" /\ last.arg # "no")
          => (last.status = 0 /\ last.outcome = "ok")
    /\ damaged # "no"
          => LET data == Records
             IN  /\ getAllSubmissions(data) = <<>>
                 /\ \A s \in SubmissionStatus :
                       Storage_getSubmissionsByStatus(data, s) = <<>>
                 /\ getSubmissionCounts(data) =
                        [pending |-> 0, approved |-> 0, rejected |-> 0, total |-> 0]
                 /\ \A i \in DOMAIN file : getSubmission(data, file[i].id) = <<>>

C25_Witness ==
    /\ damaged = "not an array"
    /\ file # <<>>
    /\ last.op = "getSubmissionCounts"
    /\ last.arg = "not an array"
    /\ last.status = 0

----------------------------------------------------------------------------
(* The Express handlers with a disk and a mailer that can fail             *)

\* the notifier returns a promise, rejected when the mail cannot be sent
send(delivered) == IF delivered THEN "sent" ELSE "rejected"

\* variant: a mail that cannot be sent fails the request and undoes it
notified_rollback(r, before, delivered) ==
    IF r.mail # "none" /\ send(delivered) = "rejected"
        THEN Response(500, "Failed to send email", before, <<>>, r.mail)
        ELSE r

\* the handlers do not await the notifier; its rejection is logged by the
\* .catch attached to the promise and the response is sent as planned
notified(r, before, delivered) ==
    IF r.mail # "none" /\ send(delivered) = "rejected" THEN r ELSE r

\* the catch block of a handler, reached by the error of writeData
caught(op, before) ==
    IF op \in EmailRequests
        THEN Response(500, "Server Error", before, <<>>, "none")
        ELSE Response(400, "Failed to save submission to file", before, <<>>,
                      "none")

\* what a request answers and leaves, given the handler's result on a disk
\* that takes the write
Answered(op, r, before, writable, delivered) ==
    IF r.data # before /\ ~writable
        THEN caught(op, before)
        ELSE notified(r, before, delivered)

IoOfRequest(r, before, writable, delivered) ==
    IF r.data # before /\ ~writable THEN "write failed"
    ELSE IF r.mail # "none" /\ send(delivered) = "rejected" THEN "mail failed"
    ELSE "ok"

SubmitFaulty ==
    /\ Len(file) < MaxRecords
    /\ LET data == Records IN
       \E doc \in Documents, writable \in BOOLEAN, delivered \in BOOLEAN,
          torn \in BOOLEAN :
          LET r == submitHandler(data, USERS.writer, doc, clock, clock)
              a == Answered("POST /api/submit", r, data, writable, delivered)
          IN  /\ DiskAfter(r.data # data, writable, torn, r.data)
              /\ mailbox' =
                     IF a.mail = "approval request" /\ delivered
                         THEN mailbox \cup
                                  { generateEmailToken(a.ret[1].id, "approve", clock),
                                    generateEmailToken(a.ret[1].id, "reject", clock) }
                         ELSE mailbox
              /\ last' = [Call("POST /api/submit", <<>>, "", a.status, a.outcome,
                               <<>>, a.ret, a.mail)
                              EXCEPT !.doc = <<doc>>,
                                     !.io = IoOfRequest(r, data, writable, delivered)]
    /\ UNCHANGED <<clock, applied, tokenBlacklist>>

ApproveFaulty ==
    LET data == Records IN
    \E postId \in CallIds, writable \in BOOLEAN, delivered \in BOOLEAN,
       torn \in BOOLEAN :
        LET r == approveHandler(data, USERS.manager, postId, clock)
            a == Answered("GET /api/approve", r, data, writable, delivered)
        IN  /\ DiskAfter(r.data # data, writable, torn, r.data)
            /\ last' = [Call("GET /api/approve", postId, Approved, a.status,
                             a.outcome, getSubmission(data, postId), a.ret, a.mail)
                            EXCEPT !.io = IoOfRequest(r, data, writable, delivered)]
            /\ UNCHANGED <<clock, mailbox, applied, tokenBlacklist>>

EmailRejectFaulty ==
    LET data == Records IN
    \E token \in RequestTokens, writable \in BOOLEAN, delivered \in BOOLEAN,
       torn \in BOOLEAN :
        LET r == emailRejectHandler(data, token, clock)
            a == Answered("GET /api/email/reject", r, data, writable, delivered)
        IN  /\ DiskAfter(r.data # data, writable, torn, r.data)
            /\ last' = [Call("GET /api/email/reject", TokenId(token), Rejected,
                             a.status, a.outcome,
                             getSubmission(data, TokenId(token)), a.ret, a.mail)
                            EXCEPT !.doc = <<token>>,
                                   !.io = IoOfRequest(r, data, writable, delivered)]
            /\ UNCHANGED <<clock, mailbox, applied, tokenBlacklist>>

NextFault ==
    \/ SubmitFaulty
    \/ ApproveFaulty
    \/ EmailRejectFaulty

SpecFault == Init /\ [][NextFault]_vars

C26_FailureClasses ==
    /\ (last.op = "POST /api/submit" /\ last.doc # <<>>
            /\ (Blank(last.doc[1].title) \/ Blank(last.doc[1].content)))
          => last.status = 400
    /\ (last.op = "GET /api/approve" /\ last.before = <<>>)
          => last.status = 404
    /\ (last.op \in EmailRequests /\ TokenFitsEndpoint(last) /\ last.before = <<>>)
          => last.status = 404
    /\ last.io = "write failed" => last.status \in 500..599

\* C27: clearAll returns the number of records that were in the store and
\* leaves the store empty: afterwards getAllSubmissions is empty, every count
\* is 0 and getSubmission returns absent for every id.
C27_ClearAllEmptiesStore ==
    [][ (last'.op = "clearAll" /\ CallMade)
        => LET old == Records
               new == readData(file')
           IN  /\ last'.status = Len(old)
               /\ new = <<>>
               /\ getAllSubmissions(new) = <<>>
               /\ getSubmissionCounts(new) =
                      [pending |-> 0, approved |-> 0, rejected |-> 0, total |-> 0]
               /\ \A id \in StoredIds \cup CallIds : getSubmission(new, id) = <<>>
      ]_vars

C27_Witness ==
    /\ last.op = "clearAll"
    /\ last.status = MaxRecords
    /\ file = <<>>

\* the record with status and updatedAt taken from another one
WithStatusOf(record, other) ==
    [record EXCEPT !.status = other.status, !.updatedAt = other.updatedAt]

\* C29: a record is changed only by a status transition that targets it, and
\* then only in status and updatedAt: a transition leaves every record with
\* another id and the ids stored as they were, and createSubmission and
\* deleteSubmission of another id leave the record as it was.
C29_OnlyTransitionMutates ==
    [][ LET old == Records
            new == readData(file')
        IN  /\ (last'.op \in TransitionCalls /\ CallMade)
                  => /\ Len(new) = Len(old)
                     /\ \A i \in DOMAIN old :
                           /\ new[i].id = old[i].id
                           /\ old[i].id # last'.id => new[i] = old[i]
                           /\ WithStatusOf(new[i], old[i]) = old[i]
            /\ (last'.op = "createSubmission" /\ CallMade)
                  => \A i \in DOMAIN old : i \in DOMAIN new /\ new[i] = old[i]
            /\ (last'.op = "deleteSubmission" /\ CallMade)
                  => \A i \in DOMAIN old :
                        old[i].id # last'.id => Listed(new, old[i])
            /\ \A i \in DOMAIN old :
                  \/ Listed(new, old[i])
                  \/ last'.op \in {"deleteSubmission", "clearAll"}
                  \/ /\ last'.op \in TransitionCalls
                     /\ last'.id = old[i].id
      ]_vars

C29_Witness ==
    /\ last.op \in TransitionCalls
    /\ last.outcome = "ok"
    /\ Len(file) = 2
    /\ file[1].id # file[2].id
    /\ last.id = file[1].id
    /\ last.before # <<>>
    /\ last.before[1].status = Pending
    /\ file[1].status = Approved
    /\ file[1].updatedAt > last.before[1].updatedAt

----------------------------------------------------------------------------
(* Sessions: login tokens, authenticateToken and logout                    *)

JWT_SECRET == "default-secret-key-change-in-production"

\* expiresIn: "24h", in the seconds jsonwebtoken counts in
expiresIn == 86400

\* jwt.sign at login: the payload with iat and exp in whole seconds, signed
sign(user, now) ==
    LET payload == [email |-> user.email, role |-> user.role,
                    iat |-> now \div 1000, exp |-> (now \div 1000) + expiresIn]
    IN  [payload |-> payload, signature |-> Hmac(JWT_SECRET, payload)]

\* jwt.verify: the decoded payload, or nothing (it throws) for a token that
\* is not signed with the secret or has expired
verify(token, now) ==
    IF token.signature # Hmac(JWT_SECRET, token.payload) THEN <<>>
    ELSE IF now \div 1000 >= token.payload.exp THEN <<>>
    ELSE <<[email |-> token.payload.email, role |-> token.payload.role]>>

\* the token a request is authenticated with: the second word of the
\* Authorization header, else the cookie
Credential(req) == IF req.header # <<>> THEN req.header ELSE req.cookie

Denied(outcome) == [status |-> 401, outcome |-> outcome, user |-> <<>>]

\* variant: the blacklist is not consulted
authenticateToken_noBlacklist(req, blacklist, now) ==
    LET token == Credential(req)
    IN  IF token = <<>> THEN Denied("Access denied. No token provided.")
        ELSE IF verify(token[1], now) = <<>>
            THEN Denied("Invalid or expired token")
        ELSE [status |-> 200, outcome |-> "next", user |-> verify(token[1], now)]

authenticateToken(req, blacklist, now) ==
    LET token == Credential(req)
    IN  IF token = <<>> THEN Denied("Access denied. No token provided.")
        ELSE IF token[1] \in blacklist
            THEN Denied("Token has been invalidated. Please login again.")
        ELSE IF verify(token[1], now) = <<>>
            THEN Denied("Invalid or expired token")
        ELSE [status |-> 200, outcome |-> "next", user |-> verify(token[1], now)]

\* POST /api/logout behind authenticateToken: the blacklist afterwards
logout(req, blacklist, now) ==
    LET auth == authenticateToken(req, blacklist, now)
    IN  IF auth.status # 200
            THEN [status |-> auth.status, outcome |-> auth.outcome,
                  blacklist |-> blacklist]
            ELSE [status |-> 200, outcome |-> "Logout successful",
                  blacklist |-> blacklist \cup {Credential(req)[1]}]

\* tokens a client can hold: those login issues at the present time to the
\* two accounts, and one signed with another secret
SessionTokens ==
    { sign(USERS.writer, clock), sign(USERS.manager, clock),
      [sign(USERS.manager, clock) EXCEPT !.signature = Hmac("guess", @.data)] }

Carried == {<<>>} \cup { <<token>> : token \in SessionTokens }

Requests == [header : Carried, cookie : Carried]

Logout ==
    \E req \in Requests :
        LET r == logout(req, tokenBlacklist, clock)
        IN  /\ tokenBlacklist' = r.blacklist
            /\ last' = [Call("POST /api/logout", <<>>, "", r.status, r.outcome,
                             <<>>, <<>>, "none") EXCEPT !.doc = <<req>>]
            /\ UNCHANGED <<file, clock, mailbox, applied, damaged>>

GetMe ==
    \E req \in Requests :
        LET auth == authenticateToken(req, tokenBlacklist, clock)
        IN  /\ last' = [Call("GET /api/me", <<>>, "", auth.status,
                             IF auth.status = 200 THEN auth.user[1].email
                                                  ELSE auth.outcome,
                             <<>>, <<>>, "none") EXCEPT !.doc = <<req>>]
            /\ UNCHANGED <<file, clock, mailbox, applied, tokenBlacklist, damaged>>

SubmitAuthed ==
    /\ Len(file) < MaxRecords
    /\ LET data == Records IN
       \E req \in Requests, doc \in ValidDocuments :
          LET auth == authenticateToken(req, tokenBlacklist, clock)
              r == IF auth.status # 200
                       THEN Response(auth.status, auth.outcome, data, <<>>, "none")
                       ELSE submitHandler(data, auth.user[1], doc, clock, clock)
          IN  /\ file' = Written(data, r.data)
              /\ last' = [Call("POST /api/submit", <<>>, "", r.status, r.outcome,
                               <<>>, r.ret, r.mail) EXCEPT !.doc = <<req>>]
    /\ UNCHANGED <<clock, mailbox, applied, tokenBlacklist, damaged>>

ApproveAuthed ==
    LET data == Records IN
    \E req \in Requests, postId \in StoredIds :
        LET auth == authenticateToken(req, tokenBlacklist, clock)
            r == IF auth.status # 200
                     THEN Response(auth.status, auth.outcome, data, <<>>, "none")
                     ELSE approveHandler(data, auth.user[1], postId, clock)
        IN  /\ file' = Written(data, r.data)
            /\ last' = [Call("GET /api/approve", postId, Approved, r.status,
                             r.outcome, getSubmission(data, postId), r.ret, r.mail)
                            EXCEPT !.doc = <<req>>]
            /\ UNCHANGED <<clock, mailbox, applied, tokenBlacklist, damaged>>

\* the requests of one clock reading: a token is stamped in whole seconds,
\* so that the tokens in use do not change with the reading
NextAuth ==
    \/ Logout
    \/ GetMe
    \/ SubmitAuthed
    \/ ApproveAuthed

SpecAuth == Init /\ [][NextAuth]_vars

\* C28: once POST /api/logout has succeeded for a token the token stays in
\* the blacklist of the process, and every later request authenticated with
\* it is answered 401 and reaches no handler: the file and the blacklist are
\* left as they were.
C28_LogoutInvalidatesToken ==
    [][ /\ tokenBlacklist \subseteq tokenBlacklist'
        /\ (last'.op = "POST /api/logout" /\ CallMade /\ last'.status = 200)
              => Credential(last'.doc[1])[1] \in tokenBlacklist'
        /\ (CallMade /\ last'.doc # <<>> /\ Credential(last'.doc[1]) # <<>>
                 /\ Credential(last'.doc[1])[1] \in tokenBlacklist)
              => /\ last'.status = 401
                 /\ file' = file
                 /\ tokenBlacklist' = tokenBlacklist
                 /\ last'.ret = <<>>
      ]_vars

C28_Witness ==
    /\ last.op = "POST /api/submit"
    /\ last.status = 401
    /\ last.outcome = "Token has been invalidated. Please login again."
    /\ Credential(last.doc[1])[1] \in tokenBlacklist
    /\ verify(Credential(last.doc[1])[1], clock) # <<>>
    /\ verify(Credential(last.doc[1])[1], clock)[1].role = "writer"
    /\ file # <<>>

----------------------------------------------------------------------------
(* The whole HTTP surface that writes the store                            *)

\* DELETE /api/submissions/:id; user is the identity authenticateToken
\* resolved
deleteHandler(data, user, id) ==
    LET submission == getSubmission(data, id)
    IN  IF submission = <<>>
            THEN Response(404, "Submission not found", data, <<>>, "none")
        ELSE IF user.role = "writer"
                 /\ submission[1].writerEmail # <<user.email>>
            THEN Response(403, "You can only delete your own submissions", data,
                          <<>>, "none")
        ELSE LET r == deleteSubmission(data, id)
             IN  IF r.deleted
                     THEN Response(200, "deleted", r.data, <<>>, "none")
                     ELSE Response(404, "Submission not found", data, <<>>, "none")

DeleteRequest ==
    LET data == Records IN
    \E user \in Users, id \in CallIds :
        LET r == deleteHandler(data, user, id)
        IN  /\ file' = Written(data, r.data)
            /\ last' = Call("DELETE /api/submissions/:id", id, "", r.status,
                            r.outcome, getSubmission(data, id), r.ret, r.mail)
            /\ applied' = IF r.outcome = "deleted" THEN Forgotten(id) ELSE applied
            /\ UNCHANGED <<clock, mailbox, tokenBlacklist, damaged>>

\* POST /api/submit of a document the writer is let to submit, served within
\* one reading of the clock
SubmitRequest ==
    /\ Len(file) < MaxRecords
    /\ LET data == Records IN
       \E doc \in ValidDocuments :
          LET r == submitHandler(data, USERS.writer, doc, clock, clock)
          IN  /\ file' = Written(data, r.data)
              /\ mailbox' =
                     IF r.mail = "approval request"
                         THEN mailbox \cup
                                  { generateEmailToken(r.ret[1].id, "approve", clock),
                                    generateEmailToken(r.ret[1].id, "reject", clock) }
                         ELSE mailbox
              /\ last' = Call("POST /api/submit", <<>>, "", r.status, r.outcome,
                              <<>>, r.ret, r.mail)
              /\ UNCHANGED <<clock, applied, tokenBlacklist, damaged>>

NextSurface ==
    \/ Tick
    \/ SubmitRequest
    \/ GetApprove
    \/ GetReject
    \/ GetEmailApprove
    \/ GetEmailReject
    \/ DeleteRequest

SpecSurface == Init /\ [][NextSurface]_vars

\* ids of the records a transition has been applied to since they were saved
TransitionedIds == { p.id : p \in applied }

\* C30: through the HTTP requests a record that has left Pending is never
\* Pending again, and an email link changes a record only when the record
\* is Pending and no transition has been applied to it before, so that at
\* most one email action ever transitions a submission.
C30_NeverBackToPending ==
    [][ LET old == Records
            new == readData(file')
        IN  /\ last'.op # "DELETE /api/submissions/:id"
                  => \A i \in DOMAIN old :
                        old[i].status # Pending
                            => /\ i \in DOMAIN new
                               /\ new[i].id = old[i].id
                               /\ new[i].status # Pending
            /\ last'.op = "DELETE /api/submissions/:id"
                  => \A i \in DOMAIN old :
                        \/ Listed(new, old[i])
                        \/ old[i].id = last'.id /\ last'.outcome = "deleted"
            /\ \A p \in applied' :
                  /\ getSubmission(new, p.id) # <<>>
                  /\ getSubmission(new, p.id)[1].status # Pending
            /\ (last'.op \in EmailRequests /\ file' # file)
                  => /\ last'.before # <<>>
                     /\ last'.before[1].status = Pending
                     /\ last'.id \notin TransitionedIds
                     /\ getSubmission(new, last'.id)[1].status = last'.arg
      ]_vars

C30_Witness ==
    /\ last.op = "GET /api/email/reject"
    /\ last.outcome = "Already Processed"
    /\ TokenFitsEndpoint(last)
    /\ last.id \in TransitionedIds
    /\ Stored(last.id).status = Approved
    /\ \E i \in DOMAIN file : file[i].status = Pending

====
